---- MODULE Spec2Model ----
(***************************************************************************)
(* Model of the attendance forecasting pipeline (run_forecast.py and the   *)
(* src package): leakage-safe lag features, the forecast grid and the      *)
(* member-hold adjustment.                                                 *)
(*                                                                         *)
(* Tables (pandas DataFrames) are sequences of records, in row order.      *)
(* Dates are integers (day numbers).  Floating point numbers are exact     *)
(* rationals <<numerator, denominator>>; a denominator of 0 is NaN/null.   *)
(***************************************************************************)
EXTENDS Integers, Sequences, FiniteSets, TLC

VARIABLES
    pc,             \* position of the run
    session_df,     \* session-level history (one row per occurrence)
    lag_df,         \* session_df with the lag/rolling features attached
    work_calendar,  \* calendar table: the_date, is_business_day, holiday_name
    forecast_dates, \* the dates to forecast, in order
    forecast_df,    \* the forecast grid, one row per (slot, forecast date)
    attendance_df,  \* member-level attendance rows
    member_holds_df,\* hold table: member_id, hold_start, hold_end
    predictions,    \* the estimator's output, one value per forecast row
    system_config_df,\* capacity config: match_pattern, capacity
    forecast_output,\* the rows handed to the upsert
    args,           \* the arguments of a single function call
    result,         \* what that call returned
    db,             \* the tables of the database, as a select returns them
    sink            \* the record lists upserted into the forecast table

vars == <<pc, session_df, lag_df, work_calendar, forecast_dates, forecast_df,
          attendance_df, member_holds_df, predictions, system_config_df,
          forecast_output, args, result, db, sink>>

(***************************************************************************)
(* Numbers                                                                 *)
(***************************************************************************)
Null == <<0, 0>>
IsNull(x) == x[2] = 0
Num(n) == <<n, 1>>
Frac(n, d) == <<n, d>>

\* Equality of two nullable numbers by value (1/2 = 2/4, null = null).
NumEq(x, y) ==
    IF IsNull(x) \/ IsNull(y) THEN IsNull(x) /\ IsNull(y)
    ELSE x[1] * y[2] = y[1] * x[2]

NumLess(x, y) == x[1] * y[2] < y[1] * x[2]

NumAdd(x, y) == <<x[1] * y[2] + y[1] * x[2], x[2] * y[2]>>

NumSub(x, y) == <<x[1] * y[2] - y[1] * x[2], x[2] * y[2]>>

NumMul(x, y) == <<x[1] * y[1], x[2] * y[2]>>

\* x / y, for y > 0
NumDiv(x, y) == <<x[1] * y[2], x[2] * y[1]>>

\* fillna(0)
FillNa0(x) == IF IsNull(x) THEN Num(0) ELSE x

(***************************************************************************)
(* Sequences                                                               *)
(***************************************************************************)
Range(s) == {s[i] : i \in 1..Len(s)}

\* The function f over 1..n as a sequence value (a table held in memory).
AsSeq(f) == f \o <<>>

RECURSIVE Flatten(_)
Flatten(ss) ==
    IF ss = <<>> THEN <<>> ELSE Head(ss) \o Flatten(Tail(ss))

\* The distinct values of s, in order of first appearance (Series.unique()).
RECURSIVE UniqueSeq(_)
UniqueSeq(s) ==
    IF s = <<>> THEN <<>>
    ELSE LET r == UniqueSeq(SubSeq(s, 1, Len(s) - 1))
             x == s[Len(s)]
         IN  IF x \in Range(r) THEN r ELSE Append(r, x)

\* Lexicographic order of two sort keys (tuples of integers).
LexLess(a, b) ==
    \E k \in 1..Len(a) : a[k] < b[k] /\ \A m \in 1..(k - 1) : a[m] = b[m]

\* A stable sort of the rows of s by keys[i], the sort key of row i: rows
\* with equal keys keep their input order.
StableSort(s, keys) ==
    LET n == Len(s)
        pos(i) == Cardinality({j \in 1..n : LexLess(keys[j], keys[i])})
                  + Cardinality({j \in 1..(i - 1) : keys[j] = keys[i]})
                  + 1
    IN  AsSeq([p \in 1..n |-> s[CHOOSE i \in 1..n : pos(i) = p]])

\* The rows of a table with one column replaced.
SetField(r, f, v) == [g \in DOMAIN r \cup {f} |-> IF g = f THEN v ELSE r[g]]

(***************************************************************************)
(* Strings of the bounded domain, in Python's (code point) order.          *)
(***************************************************************************)
StrOrder == <<"09:00", "10:00", "11:00", "BOX", "PERFORM">>

StrRank(s) == CHOOSE i \in 1..Len(StrOrder) : StrOrder[i] = s

(***************************************************************************)
(* feature_engineering.add_lag_features                                    *)
(***************************************************************************)
\* df["session_name"] + "_" + df["session_start"].astype(str)
session_slot(r) == r.session_name \o "_" \o r.session_start

\* sort_values(["session_name", "session_start", "session_date"])
SortBySlotDate(df) ==
    StableSort(df, [i \in 1..Len(df) |->
        <<StrRank(df[i].session_name), StrRank(df[i].session_start),
          df[i].session_date>>])

\* sort_values("session_date")
SortByDate(df) ==
    StableSort(df, [i \in 1..Len(df) |-> <<df[i].session_date>>])

\* Series.shift(1): the value of the previous row, NaN on the first row.
\* (ShiftNone: the shift left out, the current row read.)
ShiftNone(s) == s
Shift1(s) == AsSeq([i \in 1..Len(s) |-> IF i = 1 THEN Null ELSE s[i - 1]])

RECURSIVE NumSum(_)
NumSum(s) == IF s = <<>> THEN Num(0) ELSE NumAdd(Head(s), NumSum(Tail(s)))

\* Series.rolling(window=w, min_periods=1).mean(): at row i, the mean of the
\* non-NaN values among rows i-w+1..i, NaN when there is none.
RollingMean(s, w) ==
    AsSeq([i \in 1..Len(s) |->
        LET lo == IF i - w + 1 < 1 THEN 1 ELSE i - w + 1
            valid == SelectSeq(SubSeq(s, lo, i), LAMBDA x : ~IsNull(x))
            total == NumSum(valid)
        IN  IF Len(valid) < 1 THEN Null
            ELSE <<total[1], total[2] * Len(valid)>>])

compute_lag_features(group) ==
    LET g == SortByDate(group)
        att == AsSeq([i \in 1..Len(g) |-> Num(g[i].actual_attendance)])
        lag1 == Shift1(att)
        avg4 == RollingMean(Shift1(att), 4)
        avg8 == RollingMean(Shift1(att), 8)
    IN  AsSeq([i \in 1..Len(g) |->
            SetField(SetField(SetField(g[i],
                "lag_1_attendance", lag1[i]),
                "rolling_avg_4", avg4[i]),
                "rolling_avg_8", avg8[i])])

add_lag_features(df) ==
    LET sorted == SortBySlotDate(df)
        slots == UniqueSeq([i \in 1..Len(sorted) |-> session_slot(sorted[i])])
        group(id) == SelectSeq(sorted, LAMBDA r : session_slot(r) = id)
    IN  Flatten([k \in 1..Len(slots) |-> compute_lag_features(group(slots[k]))])

(***************************************************************************)
(* feature_engineering.add_temporal_features / add_holiday_feature        *)
(* Day 1 is the Monday of ISO week 1 of the year the dates lie in.         *)
(***************************************************************************)
dayofweek(d) == (d - 1) % 7

isoweek(d) == ((d - 1) \div 7) + 1

add_temporal_features(df) ==
    AsSeq([i \in 1..Len(df) |->
        SetField(SetField(df[i], "day_of_week", dayofweek(df[i].session_date)),
                 "week_of_year", isoweek(df[i].session_date))])

\* None / NaN in a text column.
NoName == "None"

\* (is_business_day == False) | holiday_name.notna()
CalendarHoliday(c) == (c.is_business_day = FALSE) \/ (c.holiday_name # NoName)

\* merge(how="left") on the date: a row is repeated once per calendar entry
\* of its date, in calendar order; without an entry it is kept once and its
\* is_holiday is filled with False.
add_holiday_feature(df, work_cal) ==
    LET matches(r) == SelectSeq(work_cal, LAMBDA c : c.the_date = r.session_date)
        joined(r) ==
            IF matches(r) = <<>> THEN <<SetField(r, "is_holiday", FALSE)>>
            ELSE [k \in 1..Len(matches(r)) |->
                     SetField(r, "is_holiday", CalendarHoliday(matches(r)[k]))]
    IN  Flatten([i \in 1..Len(df) |-> joined(df[i])])

(***************************************************************************)
(* forecasting.get_session_slots / generate_forecast_dates /               *)
(* build_forecast_features                                                 *)
(***************************************************************************)
\* df[["session_name", "session_start", "session_end"]].drop_duplicates()
get_session_slots(df) ==
    UniqueSeq([i \in 1..Len(df) |->
        [session_name |-> df[i].session_name,
         session_start |-> df[i].session_start,
         session_end |-> df[i].session_end]])

\* def generate_forecast_dates(start_date, horizon_days: int = 14, ...)
horizon_days_default == 14

\* [start_date + timedelta(days=i) for i in range(horizon_days)]: what is
\* returned when no calendar is supplied.
all_dates(start_date, horizon_days) ==
    AsSeq([i \in 1..horizon_days |-> start_date + (i - 1)])

\* set(work_cal[work_cal["is_business_day"] == True]["the_date"])
\* (calendar_days: every date the calendar lists.)
calendar_days(work_cal) == {work_cal[k].the_date : k \in 1..Len(work_cal)}
business_days(work_cal) ==
    {work_cal[k].the_date : k \in
        {k \in 1..Len(work_cal) : work_cal[k].is_business_day = TRUE}}

generate_forecast_dates(start_date, horizon_days, work_cal) ==
    SelectSeq(all_dates(start_date, horizon_days),
              LAMBDA d : d \in business_days(work_cal))

\* GroupBy.last(): per column, the last non-null value of the group.
LastNotNull(s) ==
    LET valid == SelectSeq(s, LAMBDA x : ~IsNull(x))
    IN  IF valid = <<>> THEN Null ELSE valid[Len(valid)]

LatestPerSlot(historical_df, id, col) ==
    LET sorted == SortByDate(historical_df)
        group == SelectSeq(sorted, LAMBDA r : session_slot(r) = id)
    IN  LastNotNull([i \in 1..Len(group) |-> group[i][col]])

build_forecast_features(session_slots, dates, historical_df, work_cal) ==
    LET hist == AsSeq(historical_df)
        grid == Flatten([k \in 1..Len(session_slots) |->
                    [j \in 1..Len(dates) |->
                        [session_date |-> dates[j],
                         session_name |-> session_slots[k].session_name,
                         session_start |-> session_slots[k].session_start,
                         session_end |-> session_slots[k].session_end]]])
        featured == add_holiday_feature(add_temporal_features(grid), work_cal)
        \* merge(how="left") on session_slot, then fillna(0)
        latest(r, col) ==
            IF \E i \in 1..Len(hist) : session_slot(hist[i]) = session_slot(r)
            THEN FillNa0(LatestPerSlot(hist, session_slot(r), col))
            ELSE Num(0)
    IN  AsSeq([i \in 1..Len(featured) |->
            SetField(SetField(SetField(featured[i],
                "lag_1_attendance", latest(featured[i], "lag_1_attendance")),
                "rolling_avg_4", latest(featured[i], "rolling_avg_4")),
                "rolling_avg_8", latest(featured[i], "rolling_avg_8"))])

(***************************************************************************)
(* aggregation.aggregate_to_session_level                                  *)
(***************************************************************************)
\* A null date (NaT); every real date is >= 1.
NaT == 0

\* The columns of a table, read off its rows (tables without rows do not
\* occur where the columns matter).
Columns(df) == IF df = <<>> THEN {} ELSE DOMAIN df[1]

\* required_cols = ["session_date", "session_name", "session_start",
\*                  "member_id"]
\* (required_cols_with_end: session_end required as well.)
required_cols_with_end ==
    {"session_date", "session_name", "session_start", "session_end",
     "member_id"}
required_cols == {"session_date", "session_name", "session_start", "member_id"}

\* missing = [col for col in required_cols if col not in df.columns]
missing_cols(df) == required_cols \ Columns(df)

\* groupby_cols, with session_end appended if the column is present.
groupby_cols(df) ==
    <<"session_date", "session_name", "session_start">>
        \o (IF "session_end" \in Columns(df) THEN <<"session_end">> ELSE <<>>)

\* The values of the grouping columns of a row.
GroupKey(r, cols) == AsSeq([k \in 1..Len(cols) |-> r[cols[k]]])

\* groupby drops the groups whose key has a null (dropna=True).
NullInKey(key) ==
    key[1] = NaT \/ \E k \in 2..Len(key) : key[k] = NoName

\* The sort key of a group: the date, then the strings in code point order.
GroupSortKey(key) ==
    AsSeq([k \in 1..Len(key) |-> IF k = 1 THEN key[1] ELSE StrRank(key[k])])

\* agg({"member_id": "nunique"})
\* (size: the number of rows.)
size(s) == Len(s)
nunique(s) == Cardinality(Range(s))

\* groupby(groupby_cols, as_index=False).agg(member_id nunique): one row per
\* occurrence key, in key order, counting the distinct members.
aggregate_to_session_level(df) ==
    LET cols == groupby_cols(df)
        keys == SelectSeq(
                    UniqueSeq(AsSeq([i \in 1..Len(df) |-> GroupKey(df[i], cols)])),
                    LAMBDA key : ~NullInKey(key))
        ordered == StableSort(keys,
                       AsSeq([k \in 1..Len(keys) |-> GroupSortKey(keys[k])]))
        group(key) == SelectSeq(df, LAMBDA r : GroupKey(r, cols) = key)
        members(key) == AsSeq([i \in 1..Len(group(key)) |-> group(key)[i].member_id])
        index(c) == CHOOSE k \in 1..Len(cols) : cols[k] = c
    IN  AsSeq([k \in 1..Len(ordered) |->
            [c \in Range(cols) \cup {"actual_attendance"} |->
                IF c = "actual_attendance" THEN nunique(members(ordered[k]))
                ELSE ordered[k][index(c)]]])

(***************************************************************************)
(* forecasting.apply_member_holds_adjustment                               *)
(***************************************************************************)
\* member_holds_df[member_holds_df["hold_end"].notna()]
\* (HoldsOpenEnded: a null end read as "on hold until further notice".)
HoldsOpenEnded(holds) ==
    [i \in 1..Len(holds) |->
        IF holds[i].hold_end = NaT
        THEN [holds[i] EXCEPT !.hold_end = holds[i].hold_start + 1000]
        ELSE holds[i]]
DatedHolds(holds) == SelectSeq(holds, LAMBDA h : h.hold_end # NaT)

\* member_holds_df["member_id"].unique()
\* (HoldMembersRepeated: one entry per hold row.)
HoldMembersRepeated(holds) == [i \in 1..Len(holds) |-> holds[i].member_id]
HoldMembers(holds) == UniqueSeq([i \in 1..Len(holds) |-> holds[i].member_id])

\* groupby("session_slot")["session_date"].nunique()
session_occurrence_counts(att, slot) ==
    Cardinality({att[i].session_date : i \in
                    {i \in 1..Len(att) : session_slot(att[i]) = slot}})

\* member_attendance.groupby("session_slot").size(): the number of rows.
member_attendance_by_slot(att, member, slot) ==
    Len(SelectSeq(att, LAMBDA r : r.member_id = member /\ session_slot(r) = slot))

\* min(times_attended / times_session_ran, 1.0)
attendance_rate(times_attended, times_session_ran) ==
    IF times_attended > times_session_ran THEN Num(1)
    ELSE Frac(times_attended, times_session_ran)

\* The list of {member_id, session_slot, attendance_rate} entries.
member_patterns(holds, att) ==
    LET all_session_slots == UniqueSeq([i \in 1..Len(att) |-> session_slot(att[i])])
        members == HoldMembers(holds)
        attended(m) == SelectSeq(all_session_slots,
                          LAMBDA sl : member_attendance_by_slot(att, m, sl) > 0)
        entries(m) ==
            [k \in 1..Len(attended(m)) |->
                [member_id |-> m, session_slot |-> attended(m)[k],
                 attendance_rate |->
                    attendance_rate(
                        member_attendance_by_slot(att, m, attended(m)[k]),
                        session_occurrence_counts(att, attended(m)[k]))]]
    IN  Flatten([k \in 1..Len(members) |-> entries(members[k])])

\* (hold_start <= forecast_date) & (hold_end >= forecast_date)
\* (ActiveOnEndExclusive: the end date not counted as on hold.)
\* A comparison with a null date is False.
\* (ActiveOnFromStart: every date from hold_start on counted as on hold.)
ActiveOnFromStart(h, d) ==
    /\ h.hold_start # NaT /\ h.hold_start <= d
    /\ h.hold_end # NaT
ActiveOnEndExclusive(h, d) ==
    /\ h.hold_start # NaT /\ h.hold_start <= d
    /\ h.hold_end # NaT /\ h.hold_end > d
ActiveOn(h, d) ==
    /\ h.hold_start # NaT /\ h.hold_start <= d
    /\ h.hold_end # NaT /\ h.hold_end >= d

\* The adjustment of one (forecast date, slot): the summed rates of the
\* pattern entries of the held members for the slot.
adjustment(patterns, holds, d, slot) ==
    LET on_hold == SelectSeq(holds, LAMBDA h : ActiveOn(h, d))
        held_members == UniqueSeq([i \in 1..Len(on_hold) |-> on_hold[i].member_id])
        patterns_for_slot ==
            SelectSeq(patterns, LAMBDA e : /\ e.member_id \in Range(held_members)
                                           /\ e.session_slot = slot)
    IN  NumSum([i \in 1..Len(patterns_for_slot) |->
                    patterns_for_slot[i].attendance_rate])

\* adjustment_dict.get((date, slot), 0.0): entries exist for the dates of
\* forecast_dates only.
adjustment_dict(patterns, holds, dates, d, slot) ==
    IF d \in Range(dates) THEN adjustment(patterns, holds, d, slot) ELSE Num(0)

\* max(0, row["predicted_attendance"] - adjustment)
\* (adjust_unfloored: the floor at zero left out.)
adjust_unfloored(predicted, adj) == NumSub(predicted, adj)
adjust_attendance(predicted, adj) ==
    IF NumLess(Num(0), NumSub(predicted, adj)) THEN NumSub(predicted, adj)
    ELSE Num(0)

apply_member_holds_adjustment(forecasts, holds, dates, att) ==
    IF holds = <<>> THEN forecasts
    ELSE IF DatedHolds(holds) = <<>> THEN forecasts
    ELSE IF member_patterns(DatedHolds(holds), att) = <<>> THEN forecasts
    ELSE LET dated == DatedHolds(holds)
             patterns == member_patterns(dated, att)
         IN  AsSeq([i \in 1..Len(forecasts) |->
                SetField(forecasts[i], "predicted_attendance",
                    adjust_attendance(forecasts[i].predicted_attendance,
                        adjustment_dict(patterns, dated, dates,
                            forecasts[i].session_date,
                            session_slot(forecasts[i]))))])

\* predictions.clip(min=0)
\* (clip_none: the clip left out.)
clip_none(p) == p
clip_min0(p) ==
    AsSeq([i \in 1..Len(p) |-> IF NumLess(p[i], Num(0)) THEN Num(0) ELSE p[i]])

(***************************************************************************)
(* data_loading.get_base_capacity                                          *)
(* Session names and patterns are sequences of characters here.            *)
(***************************************************************************)
\* None: a null that is not NaN (pd.notna is False for both).
None == <<1, 0>>

\* A row of system_config.
ConfigRow(p, c) == [match_pattern |-> p, capacity |-> c]

\* str.upper(), on the letters of the bounded domain.
UpperOf(c) ==
    CASE c = "b" -> "B" [] c = "o" -> "O" [] c = "x" -> "X"
      [] c = "p" -> "P" [] c = "e" -> "E" [] c = "r" -> "R"
      [] c = "f" -> "F" [] c = "m" -> "M" [] OTHER -> c
upper(s) == AsSeq([i \in 1..Len(s) |-> UpperOf(s[i])])

\* str.strip()
strip(s) ==
    LET inked == {i \in 1..Len(s) : s[i] # " "}
    IN  IF inked = {} THEN <<>>
        ELSE SubSeq(s, CHOOSE i \in inked : \A j \in inked : i <= j,
                       CHOOSE i \in inked : \A j \in inked : j <= i)

\* p in s
contains(s, p) ==
    \E i \in 1..(Len(s) - Len(p) + 1) : SubSeq(s, i, i + Len(p) - 1) = p

\* sort_values("pattern_length", ascending=False); rows of equal length
\* keep their order.
config_sorted(system_config) ==
    StableSort(system_config,
        AsSeq([k \in 1..Len(system_config) |->
                  <<0 - Len(system_config[k].match_pattern)>>]))

\* The rows the loop returns from: the pattern is not empty or "NAN", is in
\* the upper-cased session name, and the capacity is not null and > 0.
capacity_rows(session_name, system_config) ==
    SelectSeq(config_sorted(system_config),
        LAMBDA config :
            LET match_pattern == strip(upper(config.match_pattern))
            IN  /\ match_pattern # <<>>
                /\ match_pattern # <<"N", "A", "N">>
                /\ contains(upper(session_name), match_pattern)
                /\ ~IsNull(config.capacity)
                /\ NumLess(Num(0), config.capacity))

get_base_capacity(session_name, system_config) ==
    LET found == capacity_rows(session_name, system_config)
    IN  IF system_config = <<>> THEN None
        ELSE IF found = <<>> THEN None
        ELSE found[1].capacity

(***************************************************************************)
(* data_loading: coach counts, capacity, risk flag, output                 *)
(***************************************************************************)
\* An optional argument: left at its default of None, or given.
NotGiven == [given |-> FALSE, value |-> <<>>]
Given(v) == [given |-> TRUE, value |-> v]

\* str(session_name), for the session names of the histories.
Chars(s) ==
    CASE s = "PERFORM" -> <<"P", "E", "R", "F", "O", "R", "M">>
      [] s = "BOX" -> <<"B", "O", "X">>

\* The HH:MM of a session_start.
session_start_str(s) == IF s = "09:00:00" THEN "09:00" ELSE s

\* coach_name is a sequence of characters, empty when missing.  The count
\* of the parts between commas that are not blank; 1 for a name without a
\* comma or a missing one.
count_coaches_from_string(coach_name) ==
    IF strip(coach_name) = <<>> THEN 1
    ELSE LET coach_str == strip(coach_name)
             commas == {i \in 1..Len(coach_str) : coach_str[i] = ","}
             cuts == {0, Len(coach_str) + 1} \cup commas
             parts == {p \in cuts \X cuts :
                          /\ p[1] < p[2]
                          /\ \A c \in cuts : ~(p[1] < c /\ c < p[2])}
         IN  IF commas = {} THEN 1
             ELSE Cardinality({p \in parts :
                      \E i \in (p[1] + 1)..(p[2] - 1) : coach_str[i] # " "})

\* median().round(): the middle of the sorted counts, a half rounded to
\* the even neighbour.
median_round(counts) ==
    LET sorted == StableSort(counts,
                      AsSeq([i \in 1..Len(counts) |-> <<counts[i]>>]))
        n == Len(sorted)
        two == sorted[n \div 2] + sorted[n \div 2 + 1]
    IN  IF n % 2 = 1 THEN sorted[(n + 1) \div 2]
        ELSE IF two % 2 = 0 THEN two \div 2
        ELSE IF (two \div 2) % 2 = 0 THEN two \div 2
        ELSE two \div 2 + 1

\* One row per (session_name, session_start) of the attendance rows: the
\* rounded median of the rows' coach counts, at least 1; 1 for every slot
\* when there is no coach_name column.
calculate_coach_counts(att) ==
    LET slots == UniqueSeq([i \in 1..Len(att) |->
                     <<att[i].session_name,
                       session_start_str(att[i].session_start)>>])
        sorted == StableSort(slots,
                      AsSeq([k \in 1..Len(slots) |->
                          <<StrRank(slots[k][1]), StrRank(slots[k][2])>>]))
        rows(slot) ==
            SelectSeq(att, LAMBDA r :
                <<r.session_name, session_start_str(r.session_start)>> = slot)
        counts(slot) ==
            AsSeq([i \in 1..Len(rows(slot)) |->
                count_coaches_from_string(rows(slot)[i].coach_name)])
        median(slot) == median_round(counts(slot))
    IN  IF "coach_name" \notin Columns(att)
        THEN AsSeq([k \in 1..Len(slots) |->
                 [session_name |-> slots[k][1], session_start |-> slots[k][2],
                  coach_count |-> 1]])
        ELSE AsSeq([k \in 1..Len(sorted) |->
                 [session_name |-> sorted[k][1],
                  session_start |-> sorted[k][2],
                  coach_count |-> IF median(sorted[k]) < 1 THEN 1
                                  ELSE median(sorted[k])]])

\* base capacity x coaches: num_coaches when given, else the slot's row of
\* coach_counts_df when given and there is one, else 1.
get_capacity(session_name, session_start, config, coach_counts_df, num_coaches) ==
    LET base_capacity == get_base_capacity(Chars(session_name), config)
        match ==
            SelectSeq(coach_counts_df.value, LAMBDA c :
                /\ c.session_name = session_name
                /\ session_start_str(c.session_start)
                       = session_start_str(session_start))
        coach_count ==
            IF num_coaches.given THEN num_coaches.value
            ELSE IF coach_counts_df.given /\ match # <<>>
                 THEN match[1].coach_count
            ELSE 1
    IN  IF base_capacity = None THEN None
        ELSE NumMul(base_capacity, Num(coach_count))

\* (calculate_risk_flag_open: the amber band without its upper end.)
calculate_risk_flag_open(predicted_attendance, capacity) ==
    IF capacity = None THEN "black"
    ELSE IF IsNull(capacity) THEN "red"
    ELSE IF ~NumLess(Num(0), capacity) THEN "black"
    ELSE LET utilisation == NumDiv(predicted_attendance, capacity)
         IN  IF NumLess(utilisation, Frac(4, 5)) THEN "green"
             ELSE IF NumLess(utilisation, Frac(19, 20)) THEN "amber"
             ELSE "red"

\* A NaN capacity is neither None nor <= 0, and no comparison with the NaN
\* utilisation holds: the last branch is taken.
calculate_risk_flag(predicted_attendance, capacity) ==
    IF capacity = None THEN "black"
    ELSE IF IsNull(capacity) THEN "red"
    ELSE IF ~NumLess(Num(0), capacity) THEN "black"
    ELSE LET utilisation == NumDiv(predicted_attendance, capacity)
         IN  IF NumLess(utilisation, Frac(4, 5)) THEN "green"
             ELSE IF ~NumLess(Frac(19, 20), utilisation) THEN "amber"
             ELSE "red"

\* The column made of the values a row-wise apply returned: None stays None
\* when every value is None, and becomes NaN in a column that has numbers.
apply_column(values) ==
    IF \A i \in 1..Len(values) : values[i] = None THEN values
    ELSE AsSeq([i \in 1..Len(values) |->
             IF values[i] = None THEN Null ELSE values[i]])

\* prepare_forecast_output(forecasts_df, system_config_df, attendance_df),
\* for forecasts_df with a predicted_attendance column.
prepare_forecast_output(forecasts_df, system_config, attendance) ==
    LET with_coaches ==
            attendance.given /\ "coach_name" \in Columns(attendance.value)
        coach_counts_df ==
            IF with_coaches THEN Given(calculate_coach_counts(attendance.value))
            ELSE NotGiven
        capacity ==
            apply_column(AsSeq([i \in 1..Len(forecasts_df) |->
                get_capacity(forecasts_df[i].session_name,
                             forecasts_df[i].session_start, system_config,
                             coach_counts_df,
                             IF with_coaches THEN NotGiven ELSE Given(1))]))
        predicted_utilisation ==
            apply_column(AsSeq([i \in 1..Len(forecasts_df) |->
                IF ~IsNull(capacity[i]) /\ NumLess(Num(0), capacity[i])
                THEN NumDiv(forecasts_df[i].predicted_attendance, capacity[i])
                ELSE None]))
        output_cols ==
            {"session_date", "session_name", "session_start",
             "predicted_attendance"}
                \cup (Columns(forecasts_df) \cap {"session_end"})
    IN  AsSeq([i \in 1..Len(forecasts_df) |->
            [c \in output_cols \cup {"predicted_utilisation", "risk_flag"} |->
                IF c = "predicted_utilisation" THEN predicted_utilisation[i]
                ELSE IF c = "risk_flag"
                     THEN calculate_risk_flag(
                              forecasts_df[i].predicted_attendance, capacity[i])
                ELSE forecasts_df[i][c]]])

(***************************************************************************)
(* database.upsert_forecasts                                               *)
(***************************************************************************)
Digit(n) == <<"0", "1", "2", "3", "4", "5", "6", "7", "8", "9">>[n + 1]

\* strftime("%Y-%m-%d") of day d of 2024 (January and February), year and
\* month as one piece and the two digits of the day of the month.
strftime(d) ==
    IF d <= 31 THEN <<"2024-01-", Digit(d \div 10), Digit(d % 10)>>
    ELSE <<"2024-02-", Digit((d - 31) \div 10), Digit((d - 31) % 10)>>

\* client.table(...).upsert(records, on_conflict=...).execute(): one call
\* with all the records.
\* (upsert_call_per_record: one call for each record.)
upsert_call_per_record(records) ==
    AsSeq([i \in 1..Len(records) |-> <<records[i]>>])
upsert_calls(records) == <<records>>

\* NaN and <NA> become None.
nan_to_none(x) == IF IsNull(x) THEN None ELSE x

\* The batch made serialisable: the date as a string, session_start through
\* str (a string already), the numeric columns with None for NaN.
serializable(df) ==
    AsSeq([i \in 1..Len(df) |->
        [c \in DOMAIN df[i] |->
            IF c = "session_date" THEN strftime(df[i][c])
            ELSE IF c \in {"predicted_attendance", "predicted_utilisation"}
                 THEN nan_to_none(df[i][c])
            ELSE df[i][c]]])

\* unique_cols = ["session_date", "session_name", "session_start"]
unique_cols == <<"session_date", "session_name", "session_start">>

\* drop_duplicates(subset, keep="first")
drop_duplicates_first(df, subset) ==
    LET key(r) == [k \in 1..Len(subset) |-> r[subset[k]]]
        kept == {i \in 1..Len(df) :
                    \A j \in 1..(i - 1) : key(df[j]) # key(df[i])}
    IN  AsSeq(SelectSeq([i \in 1..Len(df) |-> [at |-> i, row |-> df[i]]],
                        LAMBDA e : e.at \in kept))

\* drop_duplicates(subset, keep="last"): of the rows that agree on subset
\* the last one stays, at its place.
drop_duplicates_last(df, subset) ==
    LET key(r) == [k \in 1..Len(subset) |-> r[subset[k]]]
        kept == {i \in 1..Len(df) :
                    \A j \in (i + 1)..Len(df) : key(df[j]) # key(df[i])}
    IN  AsSeq(SelectSeq([i \in 1..Len(df) |-> [at |-> i, row |-> df[i]]],
                        LAMBDA e : e.at \in kept))

\* The records upsert_forecasts hands to the client's upsert.
upsert_records(df) ==
    LET df_serializable == serializable(df)
        unique ==
            IF Range(unique_cols) \subseteq Columns(df_serializable)
            THEN drop_duplicates_last(df_serializable, unique_cols)
            ELSE AsSeq([i \in 1..Len(df_serializable) |->
                     [at |-> i, row |-> df_serializable[i]]])
    IN  AsSeq([i \in 1..Len(unique) |-> unique[i].row])

(***************************************************************************)
(* model_training.time_aware_split                                         *)
(***************************************************************************)
\* df[date_col].max(); NaT for a table without rows.
max_date(df) ==
    IF df = <<>> THEN NaT
    ELSE CHOOSE d \in {df[i].session_date : i \in 1..Len(df)} :
             \A i \in 1..Len(df) : df[i].session_date <= d

\* max_date - timedelta(days=test_size_days)
cutoff_date(df, test_size_days) ==
    IF max_date(df) = NaT THEN NaT ELSE max_date(df) - test_size_days

\* (train_rows_to_cutoff: the cutoff date itself counted as training.)
train_rows_to_cutoff(df, cutoff) ==
    SelectSeq(df, LAMBDA r : r.session_date <= cutoff)

\* df[df[date_col] < cutoff_date]; the cutoff is NaT for a table without
\* rows only, where there is no row to compare.
train_rows(df, cutoff) ==
    SelectSeq(df, LAMBDA r : r.session_date < cutoff)

\* df[df[date_col] >= cutoff_date]
test_rows(df, cutoff) ==
    SelectSeq(df, LAMBDA r : r.session_date >= cutoff)

time_aware_split(df, test_size_days) ==
    LET sorted == SortByDate(df)
        cutoff == cutoff_date(sorted, test_size_days)
    IN  [train_df |-> train_rows(sorted, cutoff),
         test_df |-> test_rows(sorted, cutoff)]

(***************************************************************************)
(* Bounded inputs: session-level histories                                 *)
(***************************************************************************)
MaxRows == 2        \* rows of a free-form history
MaxHist == 6        \* occurrences of a single slot's dated history

SessionNames == {"PERFORM", "BOX"}
SessionStarts == {"09:00"}
SessionEnds == {"10:00", "11:00"}
HistDates == {1, 2}
Attendances == {1, 2}

\* The worked example of the design notes, continued past the two windows.
ScenarioAttendance == <<10, 12, 8, 14, 9, 11, 7, 13, 6, 15>>

Occurrence(d, n, s, e, a) ==
    [session_date |-> d, session_name |-> n, session_start |-> s,
     session_end |-> e, actual_attendance |-> a]

\* (date, session_name, start_time, end_time): the key of an occurrence.
KeyOf(r) == <<r.session_date, r.session_name, r.session_start, r.session_end>>

UniqueKeys(df) ==
    \A i, j \in 1..Len(df) : KeyOf(df[i]) = KeyOf(df[j]) => i = j

Occurrences ==
    {Occurrence(d, n, s, e, a) :
        d \in HistDates, n \in SessionNames, s \in SessionStarts,
        e \in SessionEnds, a \in Attendances}

\* Any table of at most MaxRows occurrences, in any row order.
FreeHistories ==
    {df \in UNION {[1..n -> Occurrences] : n \in 0..MaxRows} : UniqueKeys(df)}

Reverse(s) == [i \in 1..Len(s) |-> s[Len(s) + 1 - i]]

\* One slot running on days 1..n, rows supplied oldest first or newest first.
SlotHistory(att) ==
    [i \in 1..Len(att) |-> Occurrence(i, "PERFORM", "09:00", "10:00", att[i])]

DatedHistories ==
    LET asc == {SlotHistory(att) :
                    att \in UNION {[1..n -> Attendances] : n \in 4..MaxHist}}
                \cup {SlotHistory(SubSeq(ScenarioAttendance, 1, n)) :
                        n \in 1..Len(ScenarioAttendance)}
    IN  asc \cup {Reverse(df) : df \in asc}

Histories == FreeHistories \cup DatedHistories

(***************************************************************************)
(* Lag features of a history (run_forecast.py, step 3)                     *)
(***************************************************************************)
\* A calendar of plain business days covering the forecast horizon.
\* config.Config.FORECAST_HORIZON_DAYS
FORECAST_HORIZON_DAYS == 42

\* "Tomorrow": the day after the last day any history reaches.
ForecastStart == Len(ScenarioAttendance) + 1

\* A calendar of plain business days: the first two days of the horizon.
PlainCalendar ==
    <<[the_date |-> ForecastStart, is_business_day |-> TRUE,
       holiday_name |-> NoName],
      [the_date |-> ForecastStart + 1, is_business_day |-> TRUE,
       holiday_name |-> NoName]>>

\* The same calendar with the first day of the horizon listed twice.
RepeatedDayCalendar == <<PlainCalendar[1]>> \o PlainCalendar

PipelineCalendars == {PlainCalendar, RepeatedDayCalendar}

InitLag ==
    /\ pc = "aggregated"
    /\ session_df \in Histories
    /\ lag_df = <<>>
    /\ work_calendar \in PipelineCalendars
    /\ forecast_dates = <<>>
    /\ forecast_df = <<>>
    /\ attendance_df = <<>>
    /\ member_holds_df = <<>>
    /\ predictions = <<>>
    /\ system_config_df = <<>>
    /\ forecast_output = <<>>
    /\ args = <<>>
    /\ result = <<>>
    /\ db = <<>>
    /\ sink = <<>>

\* run_forecast.py step 3: session_df = add_lag_features(session_df)
AddLagFeatures ==
    /\ pc = "aggregated"
    /\ lag_df' = add_lag_features(session_df)
    /\ pc' = "lagged"
    /\ UNCHANGED <<session_df, work_calendar, forecast_dates, forecast_df,
                   attendance_df, member_holds_df, predictions,
                   system_config_df, forecast_output, args, result,
                   db, sink>>

\* run_forecast.py step 7: the slots, the forecast dates and the grid.  With
\* no history there is no slot, and the run stops before any grid exists.
BuildForecastFeatures ==
    /\ pc = "lagged"
    /\ session_df # <<>>
    /\ forecast_dates' = generate_forecast_dates(ForecastStart,
                             FORECAST_HORIZON_DAYS, work_calendar)
    /\ forecast_df' = build_forecast_features(get_session_slots(lag_df),
                          forecast_dates', lag_df, work_calendar)
    /\ pc' = "forecast_built"
    /\ UNCHANGED <<session_df, lag_df, work_calendar,
                   attendance_df, member_holds_df, predictions,
                   system_config_df, forecast_output, args, result,
                   db, sink>>

NextLag == AddLagFeatures \/ BuildForecastFeatures

SpecLag == InitLag /\ [][NextLag]_vars

(***************************************************************************)
(* Bounded inputs: attendance rows, holds, estimators                      *)
(***************************************************************************)
MaxAttRows == 3     \* rows of the attendance table
MaxHolds == 2       \* rows of the hold table

Members == {1, 2}

\* Who coached: two coaches PERFORM on day 1 and one on day 2; no coach is
\* recorded for BOX.
CoachOf(d, n) ==
    IF n = "BOX" THEN <<>>
    ELSE IF d = 1 THEN <<"A", ",", " ", "B">>
    ELSE <<"A">>

AttendanceRow(d, n, m) ==
    [session_date |-> d, session_name |-> n, session_start |-> "09:00",
     session_end |-> "10:00", coach_name |-> CoachOf(d, n), member_id |-> m]

\* The rows an attendance table is made of, in a fixed order: BOX ran on
\* day 1, PERFORM on days 1 and 2.
AttendanceKinds ==
    <<AttendanceRow(1, "BOX", 1), AttendanceRow(1, "BOX", 2),
      AttendanceRow(1, "PERFORM", 1), AttendanceRow(1, "PERFORM", 2),
      AttendanceRow(2, "PERFORM", 1), AttendanceRow(2, "PERFORM", 2)>>

Hold(m, from, to) == [member_id |-> m, hold_start |-> from, hold_end |-> to]

\* Holds of the first forecast day only, of both days (overlapping the
\* former), of the second day only, and holds without an end.
HoldKinds ==
    <<Hold(1, ForecastStart, ForecastStart),
      Hold(1, ForecastStart, ForecastStart + 1),
      Hold(1, ForecastStart, NaT),
      Hold(2, ForecastStart, ForecastStart),
      Hold(2, ForecastStart + 1, ForecastStart + 1),
      Hold(2, ForecastStart, NaT)>>

\* The tables of lo..hi rows drawn from kinds, repeats allowed, one row
\* order per multiset of rows (nothing below reads the row order).
Tables(kinds, lo, hi) ==
    LET ordered == {g \in UNION {[1..n -> 1..Len(kinds)] : n \in lo..hi} :
                        \A i \in 1..(Len(g) - 1) : g[i] <= g[i + 1]}
    IN  {[i \in 1..Len(g) |-> kinds[g[i]]] : g \in ordered}

\* The fitted estimator: a weight on the day_of_week feature and an
\* intercept (any fit/predict estimator; the values are its output).
Estimators ==
    {[intercept |-> -4, coef |-> 1], [intercept |-> 6, coef |-> -1]}

predict(w, X) == [i \in 1..Len(X) |-> Num(w.intercept + w.coef * X[i].day_of_week)]

(***************************************************************************)
(* Forecast, hold adjustment (run_forecast.py, steps 7 and 8)              *)
(***************************************************************************)
\* The state after build_forecast_features: steps 2, 3 and 7 applied to the
\* extracted tables.
Init ==
    /\ pc = "forecast_built"
    /\ attendance_df \in Tables(AttendanceKinds, 1, MaxAttRows)
    /\ work_calendar = PlainCalendar
    /\ session_df = aggregate_to_session_level(attendance_df)
    /\ lag_df = add_lag_features(
                    add_holiday_feature(add_temporal_features(session_df),
                                        work_calendar))
    /\ forecast_dates = generate_forecast_dates(ForecastStart,
                            FORECAST_HORIZON_DAYS, work_calendar)
    /\ forecast_df = build_forecast_features(get_session_slots(lag_df),
                         forecast_dates, lag_df, work_calendar)
    /\ member_holds_df \in Tables(HoldKinds, 0, MaxHolds)
    /\ predictions = <<>>
    /\ system_config_df = <<>>
    /\ forecast_output = <<>>
    /\ args = <<>>
    /\ result = <<>>
    /\ db = <<>>
    /\ sink = <<>>

\* predictions = model.predict(X_forecast)
Predict ==
    /\ pc = "forecast_built"
    /\ \E w \in Estimators : predictions' = predict(w, forecast_df)
    /\ pc' = "predicted"
    /\ UNCHANGED <<session_df, lag_df, work_calendar, forecast_dates,
                   forecast_df, attendance_df, member_holds_df,
                   system_config_df, forecast_output, args, result,
                   db, sink>>

\* predictions = predictions.clip(min=0)
\* forecast_df["predicted_attendance"] = predictions
Clip ==
    /\ pc = "predicted"
    /\ predictions' = clip_min0(predictions)
    /\ forecast_df' = [i \in 1..Len(forecast_df) |->
            SetField(forecast_df[i], "predicted_attendance", predictions'[i])]
    /\ pc' = "clipped"
    /\ UNCHANGED <<session_df, lag_df, work_calendar, forecast_dates,
                   attendance_df, member_holds_df,
                   system_config_df, forecast_output, args, result,
                   db, sink>>

\* forecast_df = apply_member_holds_adjustment(forecast_df, member_holds_df,
\*                                             forecast_dates, attendance_df)
ApplyMemberHolds ==
    /\ pc = "clipped"
    /\ forecast_df' = apply_member_holds_adjustment(forecast_df,
                          member_holds_df, forecast_dates, attendance_df)
    /\ pc' = "adjusted"
    /\ UNCHANGED <<session_df, lag_df, work_calendar, forecast_dates,
                   attendance_df, member_holds_df, predictions,
                   system_config_df, forecast_output, args, result,
                   db, sink>>

\* The capacity configs: both session names configured, and BOX left out.
Configs ==
    {<<ConfigRow(Chars("PERFORM"), Num(2)), ConfigRow(Chars("BOX"), Num(3))>>,
     <<ConfigRow(Chars("PERFORM"), Num(2))>>}

\* forecast_output = prepare_forecast_output(forecast_df, system_config_df)
\* system_config_df is read by this step only; its value is drawn here.
PrepareForecastOutput ==
    /\ pc = "adjusted"
    /\ "predicted_attendance" \in Columns(forecast_df)
    /\ \E cfg \in Configs :
           /\ system_config_df' = cfg
           /\ forecast_output' = prepare_forecast_output(forecast_df, cfg,
                                                         NotGiven)
    /\ pc' = "output"
    /\ UNCHANGED <<session_df, lag_df, work_calendar, forecast_dates,
                   forecast_df, attendance_df, member_holds_df, predictions,
                   args, result,
                   db, sink>>

Next == Predict \/ Clip \/ ApplyMemberHolds \/ PrepareForecastOutput

Spec == Init /\ [][Next]_vars

(***************************************************************************)
(* Single calls of the package's functions                                 *)
(***************************************************************************)
MaxCal == 2         \* entries of a calendar
MaxHorizon == 3     \* horizon_days of a call that gives one

HolidayNames == {NoName, "Easter"}

CalendarEntry(d, b, h) ==
    [the_date |-> d, is_business_day |-> b, holiday_name |-> h]

\* Entries for the day before the forecast start and the three days from it.
CalendarEntries ==
    {CalendarEntry(d, b, h) : d \in (ForecastStart - 1)..(ForecastStart + 2),
                              b \in BOOLEAN, h \in HolidayNames}

\* Calendars in any entry order, a date possibly listed more than once.
Calendars == UNION {[1..n -> CalendarEntries] : n \in 0..MaxCal}

\* generate_forecast_dates(start, [horizon_days], [work_calendar])
ForecastDateCalls ==
    {[fn |-> "generate_forecast_dates", start_date |-> ForecastStart,
      horizon_given |-> g, horizon_days |-> h,
      calendar_supplied |-> c, work_calendar |-> cal] :
        g \in BOOLEAN, h \in 0..MaxHorizon, c \in BOOLEAN, cal \in Calendars}

MaxAggRows == 3     \* rows of a table handed to the aggregator

\* Attendance rows of one occurrence by two members, of the occurrence
\* with another end time, and of the next day's occurrence.
AggregateRowKinds ==
    {AttendanceRow(1, "BOX", 1), AttendanceRow(1, "BOX", 2),
     [AttendanceRow(1, "BOX", 1) EXCEPT !.session_end = "11:00"],
     AttendanceRow(2, "BOX", 1),
     [AttendanceRow(2, "BOX", 2) EXCEPT !.session_end = NoName]}

\* The table df with the columns cs only.
WithColumns(df, cs) ==
    AsSeq([i \in 1..Len(df) |-> [c \in cs |-> df[i][c]]])

\* aggregate_to_session_level(df): tables of any column subset, rows in any
\* order and possibly repeated.
AggregateCalls ==
    {[fn |-> "aggregate_to_session_level", df |-> WithColumns(df, cs)] :
        df \in UNION {[1..n -> AggregateRowKinds] : n \in 1..MaxAggRows},
        cs \in SUBSET required_cols_with_end}

\* Tables of session rows: a date the calendars may list (one or two rows),
\* a date no calendar lists, and a table without the session_date column.
SessionRow(d) == [session_date |-> d, session_name |-> "BOX"]

HolidayTables ==
    {<<SessionRow(ForecastStart)>>, <<SessionRow(ForecastStart + 1)>>,
     <<SessionRow(ForecastStart + 3)>>,
     <<SessionRow(ForecastStart + 1), SessionRow(ForecastStart)>>,
     <<[session_name |-> "BOX"]>>}

\* add_holiday_feature(df, work_calendar)
HolidayCalls ==
    {[fn |-> "add_holiday_feature", df |-> df, work_calendar |-> cal] :
        df \in HolidayTables, cal \in Calendars}

MaxConfig == 2      \* rows of the capacity config

\* Session names and match patterns, spelled out.
NamePerformanceBoxClass ==
    <<"P", "E", "R", "F", "O", "R", "M", "A", "N", "C", "E", " ", "B", "O", "X", " ", "C", "L", "A", "S", "S">>
NamePerformLower == <<"p", "e", "r", "f", "o", "r", "m">>
NameYoga == <<"Y", "O", "G", "A">>
PatternPerform == <<"P", "E", "R", "F", "O", "R", "M">>
PatternPerformanceBox ==
    <<"P", "E", "R", "F", "O", "R", "M", "A", "N", "C", "E", " ", "B", "O", "X">>
PatternBoxLower == <<"b", "o", "x">>

\* Config rows: a capacity of 2.0 or 3.0, of 0, or missing.
ConfigRows ==
    {ConfigRow(p, c) :
        p \in {PatternPerform, PatternPerformanceBox, PatternBoxLower},
        c \in {Num(2), Num(3), Num(0), Null}}

\* get_base_capacity(session_name, system_config_df), rows in any order.
CapacityCalls ==
    {[fn |-> "get_base_capacity", session_name |-> n, system_config |-> cfg] :
        n \in {NamePerformanceBoxClass, NamePerformLower, NameYoga},
        cfg \in UNION {[1..k -> ConfigRows] : k \in 0..MaxConfig}}

\* calculate_risk_flag(predicted_attendance, capacity): utilisations at,
\* below and above both band ends, and capacities that are missing or 0.
RiskCalls ==
    {[fn |-> "calculate_risk_flag", predicted_attendance |-> p,
      capacity |-> c] :
        p \in {Num(0), Num(15), Num(16), Num(17), Num(19), Num(20), Num(21),
               Frac(4, 5), Frac(19, 20), Frac(950001, 1000000)},
        c \in {Num(1), Num(20), Frac(1, 2), Num(0), None}}

MaxBatch == 3       \* rows of a batch of forecasts

OutputRow(d, n, p, u, f) ==
    [session_date |-> d, session_name |-> n, session_start |-> "09:00",
     session_end |-> "10:00", predicted_attendance |-> p,
     predicted_utilisation |-> u, risk_flag |-> f]

\* Output rows of two dates, with and without a utilisation.
OutputRows ==
    {OutputRow(d, "BOX", p, uf[1], uf[2]) :
        d \in {ForecastStart, ForecastStart + 1}, p \in {Num(1), Num(2)},
        uf \in {<<Frac(1, 2), "green">>, <<Null, "red">>}}

\* upsert_forecasts(client, df): batches in which keys may repeat.
UpsertCalls ==
    {[fn |-> "upsert_forecasts", df |-> df] :
        df \in UNION {[1..k -> OutputRows] : k \in 0..MaxBatch}}

MaxSplitRows == 3   \* rows of a table to split
MaxTestDays == 2    \* test_size_days

\* time_aware_split(df, test_size_days): occurrences of four days, rows in
\* any order, equal rows allowed.
SplitCalls ==
    {[fn |-> "time_aware_split", df |-> df, test_size_days |-> n] :
        df \in UNION {[1..k -> {Occurrence(d, "BOX", "09:00", "10:00", a) :
                                   d \in 1..4, a \in {1, 2}}] :
                         k \in 0..MaxSplitRows},
        n \in 0..MaxTestDays}

Calls ==
    {a \in ForecastDateCalls :
        /\ ~a.horizon_given => a.horizon_days = 0
        /\ ~a.calendar_supplied => a.work_calendar = <<>>}
    \cup AggregateCalls \cup HolidayCalls \cup CapacityCalls \cup RiskCalls
    \cup UpsertCalls \cup SplitCalls

InitFn ==
    /\ pc = "call"
    /\ args \in Calls
    /\ result = <<>>
    /\ session_df = <<>>
    /\ lag_df = <<>>
    /\ work_calendar = <<>>
    /\ forecast_dates = <<>>
    /\ forecast_df = <<>>
    /\ attendance_df = <<>>
    /\ member_holds_df = <<>>
    /\ predictions = <<>>
    /\ system_config_df = <<>>
    /\ forecast_output = <<>>
    /\ db = <<>>
    /\ sink = <<>>

Returned(v) == [status |-> "returned", value |-> v]
Raised(e) == [status |-> e, value |-> <<>>]

\* The horizon of a call: the parameter's default when the caller gives none.
HorizonOf(a) == IF a.horizon_given THEN a.horizon_days ELSE horizon_days_default

\* if work_calendar is not None and "is_business_day" in work_calendar.columns
CallGenerateForecastDates ==
    /\ pc = "call"
    /\ args.fn = "generate_forecast_dates"
    /\ result' = Returned(
            IF args.calendar_supplied
            THEN generate_forecast_dates(args.start_date, HorizonOf(args),
                                         args.work_calendar)
            ELSE all_dates(args.start_date, HorizonOf(args)))
    /\ pc' = "returned"
    /\ UNCHANGED <<session_df, lag_df, work_calendar, forecast_dates,
                   forecast_df, attendance_df, member_holds_df, predictions,
                   system_config_df, forecast_output, args,
                   db, sink>>

\* if missing: raise ValueError(...)
CallAggregate ==
    /\ pc = "call"
    /\ args.fn = "aggregate_to_session_level"
    /\ result' = IF missing_cols(args.df) # {} THEN Raised("ValueError")
                  ELSE Returned(aggregate_to_session_level(args.df))
    /\ pc' = "returned"
    /\ UNCHANGED <<session_df, lag_df, work_calendar, forecast_dates,
                   forecast_df, attendance_df, member_holds_df, predictions,
                   system_config_df, forecast_output, args,
                   db, sink>>

\* if "session_date" not in df.columns: raise ValueError(...)
CallAddHolidayFeature ==
    /\ pc = "call"
    /\ args.fn = "add_holiday_feature"
    /\ result' = IF "session_date" \notin Columns(args.df)
                  THEN Raised("ValueError")
                  ELSE Returned(add_holiday_feature(args.df, args.work_calendar))
    /\ pc' = "returned"
    /\ UNCHANGED <<session_df, lag_df, work_calendar, forecast_dates,
                   forecast_df, attendance_df, member_holds_df, predictions,
                   system_config_df, forecast_output, args,
                   db, sink>>

CallGetBaseCapacity ==
    /\ pc = "call"
    /\ args.fn = "get_base_capacity"
    /\ result' = Returned(get_base_capacity(args.session_name,
                                            args.system_config))
    /\ pc' = "returned"
    /\ UNCHANGED <<session_df, lag_df, work_calendar, forecast_dates,
                   forecast_df, attendance_df, member_holds_df, predictions,
                   system_config_df, forecast_output, args,
                   db, sink>>

CallCalculateRiskFlag ==
    /\ pc = "call"
    /\ args.fn = "calculate_risk_flag"
    /\ result' = Returned(calculate_risk_flag(args.predicted_attendance,
                                              args.capacity))
    /\ pc' = "returned"
    /\ UNCHANGED <<session_df, lag_df, work_calendar, forecast_dates,
                   forecast_df, attendance_df, member_holds_df, predictions,
                   system_config_df, forecast_output, args,
                   db, sink>>

\* The value returned stands for the records sent to the sink.
CallUpsertForecasts ==
    /\ pc = "call"
    /\ args.fn = "upsert_forecasts"
    /\ result' = Returned(upsert_records(args.df))
    /\ pc' = "returned"
    /\ UNCHANGED <<session_df, lag_df, work_calendar, forecast_dates,
                   forecast_df, attendance_df, member_holds_df, predictions,
                   system_config_df, forecast_output, args,
                   db, sink>>

CallTimeAwareSplit ==
    /\ pc = "call"
    /\ args.fn = "time_aware_split"
    /\ result' = Returned(time_aware_split(args.df, args.test_size_days))
    /\ pc' = "returned"
    /\ UNCHANGED <<session_df, lag_df, work_calendar, forecast_dates,
                   forecast_df, attendance_df, member_holds_df, predictions,
                   system_config_df, forecast_output, args,
                   db, sink>>

NextFn ==
    \/ CallGenerateForecastDates
    \/ CallAggregate
    \/ CallAddHolidayFeature
    \/ CallGetBaseCapacity
    \/ CallCalculateRiskFlag
    \/ CallUpsertForecasts
    \/ CallTimeAwareSplit

SpecFn == InitFn /\ [][NextFn]_vars

(***************************************************************************)
(* A run of run_forecast.main, from the tables of the database to the      *)
(* upsert.  A select that finds no row returns a table without columns.    *)
(***************************************************************************)
\* config.Config.TEST_SIZE_DAYS
TEST_SIZE_DAYS == 30

\* date.today()
Today == 50

\* data_extraction.REQUIRED_COLUMNS
REQUIRED_COLUMNS ==
    [member_daily_sessions_attended |->
         {"session_date", "session_start", "session_end", "session_name",
          "coach_name", "member_id"},
     work_calendar |-> {"the_date", "is_business_day", "holiday_name"},
     member_holds |-> {"member_id", "hold_start", "hold_end"},
     system_config |-> {"config_key", "capacity", "match_pattern"}]

\* validate_columns: the required columns that df lacks.
missing_columns(df, table_name) == REQUIRED_COLUMNS[table_name] \ Columns(df)

\* extract_all_data raises when a table lacks a required column.
extraction_raises(tables) ==
    \E t \in DOMAIN REQUIRED_COLUMNS : missing_columns(tables[t], t) # {}

\* Attendance: PERFORM on day 1 and day 40; the same with BOX on day 1; day
\* 40 only (nothing older than the test window); no row; no coach_name.
RunAttendances ==
    {<<AttendanceRow(1, "PERFORM", 1), AttendanceRow(40, "PERFORM", 1)>>,
     <<AttendanceRow(1, "PERFORM", 1), AttendanceRow(1, "BOX", 2),
       AttendanceRow(40, "PERFORM", 2)>>,
     <<AttendanceRow(40, "PERFORM", 1)>>,
     <<>>,
     WithColumns(<<AttendanceRow(1, "PERFORM", 1),
                   AttendanceRow(40, "PERFORM", 1)>>,
                 REQUIRED_COLUMNS.member_daily_sessions_attended
                     \ {"coach_name"})}

\* Calendars of the first two days of the horizon: business days, days off,
\* and a calendar without rows.
RunCalendars ==
    {<<CalendarEntry(Today + 1, TRUE, NoName),
       CalendarEntry(Today + 2, TRUE, NoName)>>,
     <<CalendarEntry(Today + 1, FALSE, NoName),
       CalendarEntry(Today + 2, FALSE, NoName)>>,
     <<>>}

RunHolds ==
    {<<Hold(1, Today + 1, Today + 1)>>, <<Hold(1, Today + 1, NaT)>>, <<>>}

RunConfigs ==
    {<<[config_key |-> "capacity_perform", capacity |-> Num(2),
        match_pattern |-> Chars("PERFORM")]>>,
     <<>>}

InitRun ==
    /\ pc = "start"
    /\ db \in [member_daily_sessions_attended : RunAttendances,
               work_calendar : RunCalendars,
               member_holds : RunHolds,
               system_config : RunConfigs]
    /\ sink = <<>>
    /\ session_df = <<>>
    /\ lag_df = <<>>
    /\ work_calendar = <<>>
    /\ forecast_dates = <<>>
    /\ forecast_df = <<>>
    /\ attendance_df = <<>>
    /\ member_holds_df = <<>>
    /\ predictions = <<>>
    /\ system_config_df = <<>>
    /\ forecast_output = <<>>
    /\ args = <<>>
    /\ result = <<>>

\* Step 1: data = extract_all_data(client)
RunExtract ==
    /\ pc = "start"
    /\ IF extraction_raises(db)
       THEN /\ pc' = "failed"
            /\ UNCHANGED <<attendance_df, work_calendar, member_holds_df,
                           system_config_df>>
       ELSE /\ attendance_df' = db.member_daily_sessions_attended
            /\ work_calendar' = db.work_calendar
            /\ member_holds_df' = db.member_holds
            /\ system_config_df' = db.system_config
            /\ pc' = "extracted"
    /\ UNCHANGED <<session_df, lag_df, forecast_dates, forecast_df,
                   predictions, forecast_output, args, result, db, sink>>

\* Step 2: session_df = aggregate_to_session_level(attendance_df)
RunAggregate ==
    /\ pc = "extracted"
    /\ IF missing_cols(attendance_df) # {}
       THEN pc' = "failed" /\ UNCHANGED session_df
       ELSE /\ session_df' = aggregate_to_session_level(attendance_df)
            /\ pc' = "aggregated"
    /\ UNCHANGED <<lag_df, work_calendar, forecast_dates, forecast_df,
                   attendance_df, member_holds_df, predictions,
                   system_config_df, forecast_output, args, result, db, sink>>

\* Step 3: the temporal, holiday and lag features.
RunBuildFeatures ==
    /\ pc = "aggregated"
    /\ lag_df' = add_lag_features(
                     add_holiday_feature(add_temporal_features(session_df),
                                         work_calendar))
    /\ pc' = "featured"
    /\ UNCHANGED <<session_df, work_calendar, forecast_dates, forecast_df,
                   attendance_df, member_holds_df, predictions,
                   system_config_df, forecast_output, args, result, db, sink>>

\* Steps 4 to 6: the split, the fit and the evaluation.  Ridge.fit raises
\* on a training set without rows.
RunTrain ==
    /\ pc = "featured"
    /\ pc' = IF time_aware_split(lag_df, TEST_SIZE_DAYS).train_df = <<>>
             THEN "failed" ELSE "trained"
    /\ UNCHANGED <<session_df, lag_df, work_calendar, forecast_dates,
                   forecast_df, attendance_df, member_holds_df, predictions,
                   system_config_df, forecast_output, args, result, db, sink>>

\* Step 7: the forecast dates (forecast_dates[0] raises when there is
\* none), the grid, and the fitted model's predictions clipped at 0.
RunForecast ==
    /\ pc = "trained"
    /\ LET dates == generate_forecast_dates(Today + 1, FORECAST_HORIZON_DAYS,
                                            work_calendar)
           grid == build_forecast_features(get_session_slots(lag_df), dates,
                                           lag_df, work_calendar)
       IN  IF dates = <<>>
           THEN /\ pc' = "failed"
                /\ UNCHANGED <<forecast_dates, forecast_df, predictions>>
           ELSE /\ forecast_dates' = dates
                /\ \E w \in Estimators :
                       predictions' = clip_min0(predict(w, grid))
                /\ forecast_df' = AsSeq([i \in 1..Len(grid) |->
                       SetField(grid[i], "predicted_attendance",
                                predictions'[i])])
                /\ pc' = "forecast"
    /\ UNCHANGED <<session_df, lag_df, work_calendar, attendance_df,
                   member_holds_df, system_config_df, forecast_output,
                   args, result, db, sink>>

\* Step 8
RunApplyMemberHolds ==
    /\ pc = "forecast"
    /\ forecast_df' = apply_member_holds_adjustment(forecast_df,
                          member_holds_df, forecast_dates, attendance_df)
    /\ pc' = "adjusted"
    /\ UNCHANGED <<session_df, lag_df, work_calendar, forecast_dates,
                   attendance_df, member_holds_df, predictions,
                   system_config_df, forecast_output, args, result, db, sink>>

\* Step 9
RunPrepareForecastOutput ==
    /\ pc = "adjusted"
    /\ forecast_output' = prepare_forecast_output(forecast_df,
                              system_config_df, NotGiven)
    /\ pc' = "evaluated"
    /\ UNCHANGED <<session_df, lag_df, work_calendar, forecast_dates,
                   forecast_df, attendance_df, member_holds_df, predictions,
                   system_config_df, args, result, db, sink>>

\* Step 10: upsert_forecasts(client, forecast_output).  The sink takes the
\* call, or the client raises and nothing is written.
RunUpsert ==
    /\ pc = "evaluated"
    /\ \/ /\ sink' = sink \o upsert_calls(upsert_records(forecast_output))
          /\ pc' = "completed"
       \/ /\ sink' = sink
          /\ pc' = "upsert_failed"
    /\ UNCHANGED <<session_df, lag_df, work_calendar, forecast_dates,
                   forecast_df, attendance_df, member_holds_df, predictions,
                   system_config_df, forecast_output, args, result, db>>

NextRun ==
    \/ RunExtract
    \/ RunAggregate
    \/ RunBuildFeatures
    \/ RunTrain
    \/ RunForecast
    \/ RunApplyMemberHolds
    \/ RunPrepareForecastOutput
    \/ RunUpsert

SpecRun == InitRun /\ [][NextRun]_vars

(***************************************************************************)
(* Claims about a whole run                                                *)
(***************************************************************************)
\* C23: in every run the upsert is invoked at most once, and only when
\* extraction, aggregation, feature building, training, forecasting, hold
\* adjustment and risk evaluation have all completed: the one call carries
\* the records of the evaluated forecast.  A run in which one of those
\* steps raised is in the failed state and has written nothing.
C23_NoPartialOutput ==
    /\ Len(sink) <= 1
    /\ sink # <<>> =>
           /\ pc = "completed"
           /\ ~extraction_raises(db)
           /\ time_aware_split(lag_df, TEST_SIZE_DAYS).train_df # <<>>
           /\ forecast_dates # <<>>
           /\ Len(forecast_output) = Len(forecast_df)
           /\ sink[1] = upsert_records(forecast_output)
    /\ pc = "failed" => sink = <<>>
    /\ (extraction_raises(db) /\ pc # "start") => pc = "failed"

\* A completed run that has written several forecast rows in its one call.
C23_Witness ==
    /\ pc = "completed"
    /\ Len(sink) = 1
    /\ Len(sink[1]) >= 2

\* The attendance table has its columns and rows older than the test window.
AttendanceValid ==
    /\ missing_columns(db.member_daily_sessions_attended,
                       "member_daily_sessions_attended") = {}
    /\ \E i \in 1..Len(db.member_daily_sessions_attended) :
           db.member_daily_sessions_attended[i].session_date
               < Today - TEST_SIZE_DAYS

\* A table is empty, or it has its columns (and, for the calendar, a
\* business day in the horizon).
EmptyOrUsable(t) ==
    \/ db[t] = <<>>
    \/ /\ missing_columns(db[t], t) = {}
       /\ t = "work_calendar" =>
              \E i \in 1..Len(db[t]) : db[t][i].is_business_day

\* C24: when the attendance data is valid and the holds table, the capacity
\* config table or the work calendar table is empty, the run does not
\* fail; once it has completed, the hold adjustment was a no-op (empty
\* holds), every flag is black (empty config) and no row of the history
\* is a holiday (empty calendar).
C24_GracefulDegradation ==
    (/\ AttendanceValid
     /\ \A t \in {"member_holds", "system_config", "work_calendar"} :
            EmptyOrUsable(t)
     /\ \E t \in {"member_holds", "system_config", "work_calendar"} :
            db[t] = <<>>)
    => /\ pc # "failed"
       /\ pc = "completed" =>
              /\ db.member_holds = <<>> =>
                     \A i \in 1..Len(forecast_output) :
                         forecast_output[i].predicted_attendance
                             = predictions[i]
              /\ db.system_config = <<>> =>
                     \A i \in 1..Len(forecast_output) :
                         forecast_output[i].risk_flag = "black"
              /\ db.work_calendar = <<>> =>
                     \A i \in 1..Len(lag_df) : ~lag_df[i].is_holiday

(***************************************************************************)
(* Claims about the lag/rolling features                                   *)
(***************************************************************************)
Features(r) == <<r.lag_1_attendance, r.rolling_avg_4, r.rolling_avg_8>>

\* The Slot of the data model: (session_name, start_time, end_time).
SlotOf(r) == <<r.session_name, r.session_start, r.session_end>>

\* The row of a table that holds the occurrence with key k.
IndexOfKey(df, k) == CHOOSE i \in 1..Len(df) : KeyOf(df[i]) = k
RowOfKey(df, k) == df[IndexOfKey(df, k)]

\* The history with the attendance of one occurrence changed.
WithAttendance(df, k, a) ==
    [df EXCEPT ![IndexOfKey(df, k)].actual_attendance = a]

\* Attendances an occurrence could have had instead.
OtherAttendances == {0, 3}

\* The occurrences of r's Slot dated strictly before r, oldest first.
PriorOfSlot(df, r) ==
    SortByDate(SelectSeq(df, LAMBDA x : /\ SlotOf(x) = SlotOf(r)
                                         /\ x.session_date < r.session_date))

\* The mean of the last min(w, Len(s)) attendances of s, null when s is empty.
MeanOfLast(s, w) ==
    LET n == Len(s)
        k == IF n < w THEN n ELSE w
        total == NumSum([i \in 1..k |-> Num(s[n - k + i].actual_attendance)])
    IN  IF n = 0 THEN Null ELSE <<total[1], total[2] * k>>

\* C1: no leakage by index.  In the date-ascending order add_lag_features
\* builds for a slot, changing the attendance of the occurrence at any
\* position j >= i (the occurrence itself included) leaves lag_1_attendance,
\* rolling_avg_4 and rolling_avg_8 at position i unchanged.  Every Slot's
\* date order is a sub-order of that order, so this covers the positions of
\* a Slot keyed with end_time as well.
C1_NoLeakageByIndex ==
    pc = "lagged" =>
        \A j \in 1..Len(lag_df) : \A a \in OtherAttendances :
            LET changed == add_lag_features(
                               WithAttendance(session_df, KeyOf(lag_df[j]), a))
            IN  \A i \in 1..j :
                    session_slot(lag_df[i]) = session_slot(lag_df[j]) =>
                        /\ KeyOf(changed[i]) = KeyOf(lag_df[i])
                        /\ Features(changed[i]) = Features(lag_df[i])

\* C1 witness: a slot with more occurrences than the short window, where a
\* later occurrence's attendance differs from an earlier one's.
C1_Witness ==
    /\ pc = "lagged"
    /\ \E i, j \in 1..Len(lag_df) :
        /\ i < j
        /\ i > 5
        /\ session_slot(lag_df[i]) = session_slot(lag_df[j])
        /\ lag_df[i].actual_attendance # lag_df[j].actual_attendance
        /\ ~IsNull(lag_df[i].rolling_avg_4)

\* C2: strictly-prior, same-Slot rule.  The features of a row are computed
\* only from occurrences of the same Slot (session_name, start_time,
\* end_time) dated strictly earlier: changing the attendance of any other
\* occurrence (same date or later, or a Slot differing in end_time) leaves
\* the row's features unchanged.
C2_StrictlyPriorSameSlot ==
    pc = "lagged" =>
        \A i, j \in 1..Len(lag_df) :
            ~(/\ SlotOf(lag_df[j]) = SlotOf(lag_df[i])
              /\ lag_df[j].session_date < lag_df[i].session_date) =>
                \A a \in OtherAttendances :
                    Features(RowOfKey(add_lag_features(
                        WithAttendance(session_df, KeyOf(lag_df[j]), a)),
                        KeyOf(lag_df[i]))) = Features(lag_df[i])

\* C3: for every Slot, the occurrence at position i of its date order has
\* lag_1_attendance equal to the attendance of the occurrence at position
\* i-1, and null at i = 0, whatever the order of the supplied rows.
C3_Lag1IsPrevious ==
    pc = "lagged" =>
        \A i \in 1..Len(lag_df) :
            LET prior == PriorOfSlot(session_df, lag_df[i])
            IN  NumEq(lag_df[i].lag_1_attendance,
                      IF prior = <<>> THEN Null
                      ELSE Num(prior[Len(prior)].actual_attendance))

\* C4: for every Slot and position i >= 1, rolling_avg_4 (rolling_avg_8) is
\* the mean of the attendances of the preceding min(i, 4) (min(i, 8))
\* occurrences of the Slot; at i = 0 it is null.
C4_RollingIsMeanOfPrior ==
    pc = "lagged" =>
        \A i \in 1..Len(lag_df) :
            LET prior == PriorOfSlot(session_df, lag_df[i])
            IN  /\ NumEq(lag_df[i].rolling_avg_4, MeanOfLast(prior, 4))
                /\ NumEq(lag_df[i].rolling_avg_8, MeanOfLast(prior, 8))

(***************************************************************************)
(* Claims about the predictions and the member-hold adjustment             *)
(***************************************************************************)
\* The forecast rows as handed to apply_member_holds_adjustment: the grid
\* with the clipped predictions as predicted_attendance.
Unadjusted ==
    AsSeq([i \in 1..Len(forecast_df) |->
        SetField(forecast_df[i], "predicted_attendance", predictions[i])])

\* H: the members having a hold with a non-null end and
\* hold_start <= d <= hold_end.
MembersOnHold(holds, d) ==
    {holds[k].member_id : k \in
        {k \in 1..Len(holds) : /\ holds[k].hold_end # NaT
                               /\ holds[k].hold_start <= d
                               /\ d <= holds[k].hold_end}}

\* The pattern table the adjustment works from.
PatternTable == member_patterns(DatedHolds(member_holds_df), attendance_df)

\* The attendance_rate of member m for the slot of forecast row r in the
\* pattern table, 0 when the table has no entry for the pair.
RateOf(patterns, m, r) ==
    LET own == {k \in 1..Len(patterns) :
                    /\ patterns[k].member_id = m
                    /\ patterns[k].session_slot = session_slot(r)}
    IN  IF own = {} THEN Num(0)
        ELSE patterns[CHOOSE k \in own : TRUE].attendance_rate

\* The sum over the members ms of their rate for the slot of row r.
RECURSIVE SumOfRates(_, _, _)
SumOfRates(patterns, ms, r) ==
    IF ms = {} THEN Num(0)
    ELSE LET m == CHOOSE x \in ms : TRUE
         IN  NumAdd(RateOf(patterns, m, r), SumOfRates(patterns, ms \ {m}, r))

\* A(D, S) of forecast row r.
ClaimedAdjustment(patterns, r) ==
    SumOfRates(patterns, MembersOnHold(member_holds_df, r.session_date), r)

Max0(x) == IF NumLess(x, Num(0)) THEN Num(0) ELSE x

\* C5: non-negativity.  From the clip right after inference onwards, and in
\* particular after the hold adjustment (the values the output step
\* receives), every prediction and every forecast row's
\* predicted_attendance is >= 0, whatever the estimator returned and
\* whatever the holds and the attendance patterns are.
C5_NonNegative ==
    pc \in {"clipped", "adjusted"} =>
        /\ \A i \in 1..Len(predictions) : ~NumLess(predictions[i], Num(0))
        /\ \A i \in 1..Len(forecast_df) :
               ~NumLess(forecast_df[i].predicted_attendance, Num(0))

\* C5 witness: an adjusted run whose estimator returned a negative value
\* for some row and whose hold adjustment exceeds some row's prediction.
C5_Witness ==
    /\ pc = "adjusted"
    /\ \E w \in Estimators :
        /\ clip_min0(predict(w, forecast_df)) = predictions
        /\ \E i \in 1..Len(forecast_df) :
               NumLess(predict(w, forecast_df)[i], Num(0))
    /\ \E i \in 1..Len(forecast_df) :
        /\ NumLess(NumSub(predictions[i],
                          ClaimedAdjustment(PatternTable, forecast_df[i])),
                   Num(0))
        /\ NumEq(forecast_df[i].predicted_attendance, Num(0))

\* C6: hold adjustment formula.  After the adjustment every forecast row
\* (D, S) has predicted_attendance = max(0, raw - A), raw being the
\* prediction handed to the adjustment and A the sum, over the members with
\* a non-null-end hold with hold_start <= D <= hold_end, of the member's
\* attendance_rate for S in the pattern table (0 without an entry).
C6_HoldAdjustmentFormula ==
    pc = "adjusted" =>
        LET patterns == PatternTable
        IN  \A i \in 1..Len(forecast_df) :
                NumEq(forecast_df[i].predicted_attendance,
                      Max0(NumSub(predictions[i],
                                  ClaimedAdjustment(patterns, forecast_df[i]))))

\* C6 witness: a row with two members on hold on its date, both with a
\* rate for its slot, one of them fractional, and a positive result; and a
\* hold that ends on the row's date.
C6_Witness ==
    /\ pc = "adjusted"
    /\ \E i \in 1..Len(forecast_df) :
        LET r == forecast_df[i]
            held == MembersOnHold(member_holds_df, r.session_date)
        IN  /\ Cardinality(held) = 2
            /\ \A m \in held : NumLess(Num(0), RateOf(PatternTable, m, r))
            /\ \E m \in held : NumLess(RateOf(PatternTable, m, r), Num(1))
            /\ NumLess(Num(0), r.predicted_attendance)
            /\ NumLess(r.predicted_attendance, predictions[i])
            /\ \E k \in 1..Len(member_holds_df) :
                   member_holds_df[k].hold_end = r.session_date

\* The hold table without its null-end holds.
WithoutNullEnd(holds) == SelectSeq(holds, LAMBDA h : h.hold_end # NaT)

\* C7: hold exclusion.  When the hold table is empty or every hold has a
\* null end, every row's predicted_attendance after the adjustment equals
\* its input; and the adjustment's result with the null-end holds in the
\* table is the result without them.
C7_NullEndHoldsExcluded ==
    pc = "adjusted" =>
        /\ (\A k \in 1..Len(member_holds_df) :
                member_holds_df[k].hold_end = NaT) =>
               \A i \in 1..Len(forecast_df) :
                   forecast_df[i].predicted_attendance = predictions[i]
        /\ forecast_df =
               apply_member_holds_adjustment(Unadjusted,
                   WithoutNullEnd(member_holds_df), forecast_dates,
                   attendance_df)

\* C7 witness: a null-end hold of a member who has a pattern for a forecast
\* slot, next to a dated hold of another member that lowers a row.
C7_Witness ==
    /\ pc = "adjusted"
    /\ \E k, n \in 1..Len(member_holds_df) :
        /\ member_holds_df[k].hold_end = NaT
        /\ member_holds_df[n].hold_end # NaT
        /\ member_holds_df[n].member_id # member_holds_df[k].member_id
        /\ \E i \in 1..Len(forecast_df) :
            /\ member_attendance_by_slot(attendance_df,
                   member_holds_df[k].member_id,
                   session_slot(forecast_df[i])) > 0
            /\ member_holds_df[k].hold_start <= forecast_df[i].session_date
            /\ NumLess(Num(0), predictions[i])
            /\ NumLess(forecast_df[i].predicted_attendance, predictions[i])

\* The dates of the attendance rows of Slot sl (of member m).
DatesRan(att, sl) ==
    {att[k].session_date : k \in {k \in 1..Len(att) : SlotOf(att[k]) = sl}}
DatesAttended(att, m, sl) ==
    {att[k].session_date : k \in
        {k \in 1..Len(att) : SlotOf(att[k]) = sl /\ att[k].member_id = m}}

\* C8: attendance pattern rate.  For every member with a dated hold and
\* every slot of the attendance history, the pattern table holds
\* attendance_rate = min(1, distinct dates the member attended the slot /
\* distinct dates the slot ran), and no entry when that rate is 0; a
\* repeated attendance row does not raise the rate.
C8_AttendanceRate ==
    pc = "adjusted" =>
        LET patterns == PatternTable
        IN  \A h \in Range(DatedHolds(member_holds_df)) :
            \A a \in Range(attendance_df) :
                LET m == h.member_id
                    attended == Cardinality(DatesAttended(attendance_df, m, SlotOf(a)))
                    ran == Cardinality(DatesRan(attendance_df, SlotOf(a)))
                    own == {k \in 1..Len(patterns) :
                                /\ patterns[k].member_id = m
                                /\ patterns[k].session_slot = session_slot(a)}
                IN  IF attended = 0 THEN own = {}
                    ELSE /\ Cardinality(own) = 1
                         /\ \A k \in own :
                                NumEq(patterns[k].attendance_rate,
                                      IF attended > ran THEN Num(1)
                                      ELSE Frac(attended, ran))

\* The hold table with, of each member's holds active on d, only the first.
OneActiveHoldEach(holds, d) ==
    LET dated == WithoutNullEnd(holds)
        keep == {k \in 1..Len(dated) :
                    ~\E j \in 1..(k - 1) :
                        /\ dated[j].member_id = dated[k].member_id
                        /\ dated[j].hold_start <= d /\ d <= dated[j].hold_end
                        /\ dated[k].hold_start <= d /\ d <= dated[k].hold_end}
        kept == SelectSeq([k \in 1..Len(dated) |-> k], LAMBDA k : k \in keep)
    IN  AsSeq([j \in 1..Len(kept) |-> dated[kept[j]]])

\* C9: no double counting.  For every forecast row (D, S) the amount taken
\* off the prediction is at most the sum of one attendance_rate per member
\* on hold on D, and it is the amount taken off when each member has a
\* single hold active on D.
C9_NoDoubleCounting ==
    pc = "adjusted" =>
        LET patterns == PatternTable
        IN  \A d \in Range(forecast_dates) :
            LET once == apply_member_holds_adjustment(Unadjusted,
                            OneActiveHoldEach(member_holds_df, d),
                            forecast_dates, attendance_df)
            IN  \A i \in 1..Len(forecast_df) :
                    forecast_df[i].session_date = d =>
                        /\ ~NumLess(ClaimedAdjustment(patterns, forecast_df[i]),
                                    NumSub(predictions[i],
                                           forecast_df[i].predicted_attendance))
                        /\ NumEq(forecast_df[i].predicted_attendance,
                                 once[i].predicted_attendance)

\* C9 witness: a member with two holds, both active on a row's date, and a
\* rate for the row's slot that is taken off the row once.
C9_Witness ==
    /\ pc = "adjusted"
    /\ \E k, n \in 1..Len(member_holds_df) : \E i \in 1..Len(forecast_df) :
        /\ k < n
        /\ member_holds_df[k] # member_holds_df[n]
        /\ member_holds_df[k].member_id = member_holds_df[n].member_id
        /\ ActiveOn(member_holds_df[k], forecast_df[i].session_date)
        /\ ActiveOn(member_holds_df[n], forecast_df[i].session_date)
        /\ NumLess(Num(0), RateOf(PatternTable, member_holds_df[k].member_id,
                                  forecast_df[i]))
        /\ NumEq(NumSub(predictions[i], forecast_df[i].predicted_attendance),
                 RateOf(PatternTable, member_holds_df[k].member_id,
                        forecast_df[i]))

C13_ContiguousDefault42 ==
    (pc = "returned" /\ args.fn = "generate_forecast_dates"
        /\ ~args.calendar_supplied) =>
        LET h == IF args.horizon_given THEN args.horizon_days
                 ELSE FORECAST_HORIZON_DAYS
        IN  result.value = [i \in 1..h |-> args.start_date + (i - 1)]

(***************************************************************************)
(* Claims about aggregate_to_session_level                                 *)
(***************************************************************************)
\* The occurrence of an attendance or aggregate row: date, session_name,
\* start_time and, where the table has the column, end_time.
OccurrenceOf(r) ==
    IF "session_end" \in DOMAIN r
    THEN <<r.session_date, r.session_name, r.session_start, r.session_end>>
    ELSE <<r.session_date, r.session_name, r.session_start>>

\* C14: the aggregate's actual_attendance of an occurrence is the number of
\* distinct member_id values among the input rows of the occurrence, and
\* repeating any input row once or twice more leaves the output unchanged.
C14_DistinctMembers ==
    (pc = "returned" /\ args.fn = "aggregate_to_session_level"
        /\ result.status = "returned") =>
        LET df == args.df
            out == result.value
        IN  /\ \A k \in 1..Len(out) :
                   out[k].actual_attendance =
                       Cardinality({df[i].member_id : i \in
                           {i \in 1..Len(df) :
                               OccurrenceOf(df[i]) = OccurrenceOf(out[k])}})
            /\ \A j \in 1..Len(df) :
                   /\ aggregate_to_session_level(Append(df, df[j])) = out
                   /\ aggregate_to_session_level(<<df[j], df[j]>> \o df) = out

\* C14 witness: an occurrence attended by two members, one of them with a
\* repeated row.
C14_Witness ==
    /\ pc = "returned" /\ args.fn = "aggregate_to_session_level"
    /\ result.status = "returned"
    /\ \E i, j, k \in 1..Len(args.df) :
        /\ i # j /\ args.df[i] = args.df[j]
        /\ OccurrenceOf(args.df[k]) = OccurrenceOf(args.df[i])
        /\ args.df[k].member_id # args.df[i].member_id
        /\ \E n \in 1..Len(result.value) :
            /\ OccurrenceOf(result.value[n]) = OccurrenceOf(args.df[i])
            /\ result.value[n].actual_attendance = 2

C16_HolidayFlag ==
    (pc = "returned" /\ args.fn = "add_holiday_feature"
        /\ result.status = "returned") =>
        LET cal == args.work_calendar
        IN  \A i \in 1..Len(result.value) :
                result.value[i].is_holiday = TRUE <=>
                    \E k \in 1..Len(cal) :
                        /\ cal[k].the_date = result.value[i].session_date
                        /\ (cal[k].is_business_day = FALSE
                            \/ cal[k].holiday_name # NoName)

(***************************************************************************)
(* Claims about the capacity and the risk flag                             *)
(***************************************************************************)
\* Case-insensitive substring containment of a pattern in a session name.
PatternMatches(p, n) ==
    \E i \in 1..(Len(n) - Len(p) + 1) :
        \A k \in 1..Len(p) : UpperOf(n[i + k - 1]) = UpperOf(p[k])

\* The config rows whose pattern matches n and is as long as any that does.
LongestMatches(cfg, n) ==
    {k \in 1..Len(cfg) :
        /\ PatternMatches(cfg[k].match_pattern, n)
        /\ \A j \in 1..Len(cfg) :
               PatternMatches(cfg[j].match_pattern, n) =>
                   Len(cfg[j].match_pattern) <= Len(cfg[k].match_pattern)}

\* A capacity that is present and > 0.
UsableCapacity(c) == ~IsNull(c) /\ NumLess(Num(0), c)

\* C17: longest-pattern match.  When one config row has the longest pattern
\* that is a case-insensitive substring of session_name, get_base_capacity
\* returns that row's capacity (none when it has none to give), wherever the
\* row stands in the config.
C17_LongestPatternMatch ==
    (pc = "returned" /\ args.fn = "get_base_capacity") =>
        LET longest == LongestMatches(args.system_config, args.session_name)
        IN  Cardinality(longest) = 1 =>
                \A k \in longest :
                    LET c == args.system_config[k].capacity
                    IN  IF UsableCapacity(c) THEN result.value = c
                        ELSE IsNull(result.value)

\* C18: the capacity is undefined whenever no pattern matches session_name
\* or the longest matching pattern has a missing or <= 0 capacity; a shorter
\* matching pattern does not stand in for it.
C18_CapacityUndefined ==
    (pc = "returned" /\ args.fn = "get_base_capacity") =>
        LET longest == LongestMatches(args.system_config, args.session_name)
        IN  (\A k \in longest :
                ~UsableCapacity(args.system_config[k].capacity)) =>
                    result.value = None

\* The coach count the design gives a slot: the rounded median of the
\* coach counts of the slot's historical rows, never below 1.
CoachCountOf(att, r) ==
    LET rows == SelectSeq(att, LAMBDA a :
                    /\ a.session_name = r.session_name
                    /\ a.session_start = r.session_start)
        counts == AsSeq([i \in 1..Len(rows) |->
                      count_coaches_from_string(rows[i].coach_name)])
    IN  IF rows = <<>> THEN 1
        ELSE IF median_round(counts) < 1 THEN 1
        ELSE median_round(counts)

\* C19: in the pipeline's output, the capacity used for each forecast row
\* is base_capacity x coach_count, coach_count being the rounded median of
\* the historical coach counts of the row's slot, never below 1: the row's
\* utilisation times that capacity is its predicted attendance.
C19_CapacityTimesCoaches ==
    pc = "output" =>
        \A i \in 1..Len(forecast_output) :
            LET r == forecast_output[i]
                base == get_base_capacity(Chars(r.session_name),
                                          system_config_df)
                capacity == NumMul(base, Num(CoachCountOf(attendance_df, r)))
            IN  ~IsNull(base) =>
                    NumEq(NumMul(r.predicted_utilisation, capacity),
                          r.predicted_attendance)

\* C20: risk classification.  For a defined capacity > 0 and utilisation
\* u = predicted_attendance / capacity, calculate_risk_flag returns green
\* iff u < 0.80, amber iff 0.80 <= u <= 0.95 and red iff u > 0.95, both band
\* ends being amber; every input gets exactly one of the four flags.
C20_RiskClassification ==
    (pc = "returned" /\ args.fn = "calculate_risk_flag") =>
        /\ result.value \in {"green", "amber", "red", "black"}
        /\ (~IsNull(args.capacity) /\ NumLess(Num(0), args.capacity)) =>
               LET u == NumDiv(args.predicted_attendance, args.capacity)
               IN  /\ result.value = "green" <=> NumLess(u, Frac(4, 5))
                   /\ result.value = "amber" <=>
                          (~NumLess(u, Frac(4, 5)) /\ ~NumLess(Frac(19, 20), u))
                   /\ result.value = "red" <=> NumLess(Frac(19, 20), u)

\* A utilisation of exactly 0.95 (19 expected in a session of 20) was
\* classified amber.
C20_Witness ==
    /\ pc = "returned"
    /\ args.fn = "calculate_risk_flag"
    /\ args.predicted_attendance = Num(19)
    /\ args.capacity = Num(20)
    /\ result.value = "amber"

\* C21: every row of the batch prepare_forecast_output returns has a black
\* risk_flag and a null predicted_utilisation when its capacity is undefined
\* (no pattern match, or a capacity <= 0), and otherwise a flag other than
\* black and a number as predicted_utilisation, whatever the capacities of
\* the batch's other rows.
C21_BlackIffUndefined ==
    pc = "output" =>
        \A i \in 1..Len(forecast_output) :
            LET r == forecast_output[i]
                base == get_base_capacity(Chars(r.session_name),
                                          system_config_df)
            IN  IF IsNull(base)
                THEN r.risk_flag = "black" /\ IsNull(r.predicted_utilisation)
                ELSE r.risk_flag # "black" /\ ~IsNull(r.predicted_utilisation)

(***************************************************************************)
(* Claims about the output sink                                            *)
(***************************************************************************)
\* The upsert key of a batch row, as it is sent.
UpsertKey(r) == <<strftime(r.session_date), r.session_name, r.session_start>>

\* The upsert key of a record.
RecordKey(r) == <<r.session_date, r.session_name, r.session_start>>

\* C22: the record list upsert_forecasts sends holds exactly one record per
\* (session_date, session_name, session_start) key of the batch, and for a
\* key that several batch rows share it is the last such row in batch
\* order.
C22_OneRecordPerKey ==
    (pc = "returned" /\ args.fn = "upsert_forecasts") =>
        LET records == result.value
            df == args.df
        IN  /\ \A i, j \in 1..Len(records) :
                   RecordKey(records[i]) = RecordKey(records[j]) => i = j
            /\ {RecordKey(records[i]) : i \in 1..Len(records)}
                   = {UpsertKey(df[k]) : k \in 1..Len(df)}
            /\ \A i \in 1..Len(records) :
                   LET same == {k \in 1..Len(df) :
                                   UpsertKey(df[k]) = RecordKey(records[i])}
                       last == CHOOSE k \in same : \A j \in same : j <= k
                   IN  /\ records[i].predicted_attendance
                              = df[last].predicted_attendance
                       /\ NumEq(records[i].predicted_utilisation,
                                df[last].predicted_utilisation)
                       /\ records[i].risk_flag = df[last].risk_flag
                       /\ records[i].session_end = df[last].session_end

\* A batch whose first and last rows share a key and differ was sent as the
\* last row's record, after the record of the other key.
C22_Witness ==
    /\ pc = "returned"
    /\ args.fn = "upsert_forecasts"
    /\ Len(args.df) = 3
    /\ UpsertKey(args.df[1]) = UpsertKey(args.df[3])
    /\ UpsertKey(args.df[1]) # UpsertKey(args.df[2])
    /\ args.df[1].predicted_attendance # args.df[3].predicted_attendance
    /\ Len(result.value) = 2
    /\ result.value[2].predicted_attendance = args.df[3].predicted_attendance

(***************************************************************************)
(* Claims about repeated runs                                              *)
(***************************************************************************)
\* The table df with the rows at i and j exchanged.
Swapped(df, i, j) ==
    AsSeq([k \in 1..Len(df) |->
        IF k = i THEN df[j] ELSE IF k = j THEN df[i] ELSE df[k]])

\* C25: determinism of the core.  A run on the same inputs with the input
\* rows in another order (here: any two rows exchanged) produces the same
\* set of feature rows and the same set of forecast rows, also when several
\* historical rows of a slot share a date.
C25_OrderIndependent ==
    /\ pc = "lagged" =>
           \A i, j \in 1..Len(session_df) :
               i < j =>
                   Range(add_lag_features(Swapped(session_df, i, j)))
                       = Range(lag_df)
    /\ pc = "forecast_built" =>
           \A i, j \in 1..Len(session_df) :
               i < j =>
                   LET again == add_lag_features(Swapped(session_df, i, j))
                   IN  Range(build_forecast_features(get_session_slots(again),
                                 forecast_dates, again, work_calendar))
                           = Range(forecast_df)

(***************************************************************************)
(* Claims about the train/test split                                       *)
(***************************************************************************)
\* How many rows of s equal r.
CountIn(s, r) == Cardinality({i \in 1..Len(s) : s[i] = r})

\* C26: time_aware_split partitions the rows.  Every input row is in
\* exactly one of train and test; train holds exactly the rows dated before
\* cutoff = max_date - test_size_days and test the rows dated on or after
\* it, so every training row is dated earlier than every test row.
C26_SplitPartitions ==
    (pc = "returned" /\ args.fn = "time_aware_split" /\ args.df # <<>>) =>
        LET train == result.value.train_df
            test == result.value.test_df
            latest == CHOOSE d \in {args.df[i].session_date :
                                       i \in 1..Len(args.df)} :
                          \A i \in 1..Len(args.df) :
                              args.df[i].session_date <= d
            cutoff == latest - args.test_size_days
        IN  /\ \A r \in Range(args.df) :
                   /\ CountIn(train, r) + CountIn(test, r)
                          = CountIn(args.df, r)
                   /\ CountIn(train, r) = 0 \/ CountIn(test, r) = 0
                   /\ CountIn(train, r) > 0 <=> r.session_date < cutoff
                   /\ CountIn(test, r) > 0 <=> r.session_date >= cutoff
            /\ Range(train) \cup Range(test) \subseteq Range(args.df)
            /\ \A i \in 1..Len(train) : \A j \in 1..Len(test) :
                   train[i].session_date < test[j].session_date

\* A split with rows on both sides, one of the test rows dated on the
\* cutoff date.
C26_Witness ==
    /\ pc = "returned"
    /\ args.fn = "time_aware_split"
    /\ result.value.train_df # <<>>
    /\ \E j \in 1..Len(result.value.test_df) :
           /\ result.value.test_df[j].session_date
                  = max_date(args.df) - args.test_size_days
           /\ args.test_size_days > 0

\* The date d lies in the window [hold_start, hold_end] of some dated hold.
InHoldWindow(holds, d) ==
    \E k \in 1..Len(holds) :
        /\ holds[k].hold_end # NaT
        /\ holds[k].hold_start <= d
        /\ d <= holds[k].hold_end

C28_HolidayPreservesRows ==
    (pc = "returned" /\ args.fn = "add_holiday_feature"
        /\ result.status = "returned") =>
        /\ Len(result.value) = Len(args.df)
        /\ \A i \in 1..Len(args.df) : \A c \in DOMAIN args.df[i] :
               result.value[i][c] = args.df[i][c]

\* C29: aggregator completeness.  The output of aggregate_to_session_level
\* has exactly one row for each distinct occurrence key (date, session_name,
\* start_time and, when the column is there, end_time) of the input,
\* occurrences with a null end_time included: none is missing, none is
\* there twice, none is made up.
C29_AggregatorComplete ==
    (pc = "returned" /\ args.fn = "aggregate_to_session_level"
        /\ result.status = "returned") =>
        LET df == args.df
            out == result.value
        IN  /\ \A i \in 1..Len(df) :
                   Cardinality({k \in 1..Len(out) :
                       OccurrenceOf(out[k]) = OccurrenceOf(df[i])}) = 1
            /\ \A k \in 1..Len(out) :
                   \E i \in 1..Len(df) :
                       OccurrenceOf(df[i]) = OccurrenceOf(out[k])

(***************************************************************************)
(* Claims about the forecast grid                                          *)
(***************************************************************************)
\* The chronologically last historical feature row of r's Slot.
LastOfSlot(df, r) ==
    LET own == SortByDate(SelectSeq(df, LAMBDA x : SlotOf(x) = SlotOf(r)))
    IN  own[Len(own)]

\* C11: forecast grid cardinality.  build_forecast_features returns exactly
\* one row for each pair (slot, forecast date): |slots| x |forecast dates|
\* rows, no pair missing and none repeated.
C11_GridCardinality ==
    pc = "forecast_built" =>
        LET slots == {SlotOf(lag_df[i]) : i \in 1..Len(lag_df)}
            dates == Range(forecast_dates)
        IN  /\ Len(forecast_df) = Cardinality(slots) * Cardinality(dates)
            /\ \A sl \in slots : \A d \in dates :
                   Cardinality({i \in 1..Len(forecast_df) :
                                   /\ SlotOf(forecast_df[i]) = sl
                                   /\ forecast_df[i].session_date = d}) = 1

\* C10: frozen snapshot.  All forecast rows of one Slot carry the same
\* lag_1_attendance, rolling_avg_4 and rolling_avg_8: the values of that
\* Slot's chronologically last historical feature row (0 where null),
\* whatever the forecast date.
C10_FrozenSnapshot ==
    pc = "forecast_built" =>
        \A i \in 1..Len(forecast_df) :
            LET f == forecast_df[i]
                last == LastOfSlot(lag_df, f)
            IN  /\ NumEq(f.lag_1_attendance, FillNa0(last.lag_1_attendance))
                /\ NumEq(f.rolling_avg_4, FillNa0(last.rolling_avg_4))
                /\ NumEq(f.rolling_avg_8, FillNa0(last.rolling_avg_8))

====
